---- MODULE Spec2Model ----
(***************************************************************************)
(* Learner-progress engine of the language-practice backend:               *)
(*   backend/services/gamification.py  (profile, streak, XP, hearts)       *)
(*   backend/routers/sessions.py       (submit_answer, difficulty)         *)
(*   backend/routers/gamification.py   (status)                            *)
(*   backend/models.py                 (Profile, StreakLog)                *)
(*                                                                         *)
(* Time is counted in ticks, TicksPerMinute ticks to the minute, so that   *)
(* the whole-minute floor of _compute_hearts_refill is a real conversion.  *)
(* A calendar date is the number of whole days since tick 0.               *)
(***************************************************************************)
EXTENDS Integers, Sequences, FiniteSets, Bags, TLC

VARIABLES
    now,         \* the wall clock, in ticks
    users,       \* table users: the set of user ids
    profiles,    \* table profiles: user id -> Profile row
    streak_log,  \* table streak_log: bag of <<user_id, date>> rows
    ev,          \* the last request handled, with the profile it started from
    run,         \* consecutive correct submissions counted from correct_streak = 0
    rg,          \* harness of the pure function _compute_hearts_refill
    attempts,    \* table attempts: bag of rows without id and created_at
    exercises,   \* table exercises: Exercise.id -> row
    call         \* harness of grade_answer, select_session_exercises and
                 \* due_exercises: the arguments of one call and its result

vars == <<now, users, profiles, streak_log, attempts, exercises, ev, run, rg, call>>

----------------------------------------------------------------------------
(* Program constants *)

HEARTS_MAX == 5
HEARTS_REGEN_INTERVAL_MINUTES == 15
XP_PER_CORRECT == 10
PROMOTION_STREAK == 3
MIN_DIFFICULTY == 1
MAX_DIFFICULTY == 5

\* Optional[...] columns: the absent value, and a present one
None == <<>>
Some(v) == <<v>>

(* Bounds *)

TicksPerMinute == 2
MaxMinutes == 31       \* input range of _compute_hearts_refill, in minutes
MaxLedgerMinutes == 16 \* clock range of the hearts specification, in minutes
MaxDay == 3            \* clock range of the streak specification, in days
MaxXpDifficulty == 150 \* xp cap of the difficulty specification
MaxXpLedger == 20      \* xp cap of the hearts and streak specifications
MaxStreak == 4         \* cap of streak_count (a clock set back and forth grows it)
MaxAnswerLen == 2      \* length of the enumerated answers
MaxLogDifficulty == 16  \* rows of table attempts in the difficulty specification
MaxLogLedger == 7      \* rows of table attempts in the hearts and streak specifications
MaxCatalog == 2        \* exercises of a reviewed catalog
MaxHistory == 3        \* attempts of the one exercise of a reviewed catalog
MaxLimit == 2          \* largest limit of a selection or a review
HealStepMinutes == 5   \* minutes between two instants of the healing clock
MaxHealSteps == 16     \* instants of the healing clock after the first
MaxLogLearners == 2    \* rows of table attempts in the two-learner specification

TicksPerDay == 24 * 60 * TicksPerMinute

Users == {"u1"}

Min(a, b) == IF a <= b THEN a ELSE b
Max(a, b) == IF a >= b THEN a ELSE b

\* dt.date.today(): the calendar date of the clock
Today(t) == t \div TicksPerDay

----------------------------------------------------------------------------
(* backend/services/gamification.py *)

\* Profile(...) as ensure_user_and_profile constructs it; the columns it does
\* not pass take their defaults, hearts_last_refill_at the server's now()
NewProfile(t) ==
    [xp |-> 0, hearts |-> HEARTS_MAX, streak_count |-> 0,
     last_active |-> None, learning_language |-> None,
     native_language |-> "en",
     current_difficulty |-> 1, correct_streak |-> 0,
     hearts_last_refill_at |-> Some(t)]

\* a row written before the column hearts_last_refill_at existed: the
\* migration adds the column without a default, so the value is NULL
LegacyProfile == [NewProfile(0) EXCEPT !.hearts_last_refill_at = None]

\* session.get(Profile, user_id) finding no row, always
ProfileMissing_Always(ps, u) == TRUE

\* session.get(Profile, user_id) finding no row
ProfileMissing(ps, u) == u \notin DOMAIN ps

\* ensure_user_and_profile: the profiles table after the call
ensure_user_and_profile(ps, u, t) ==
    IF ~ProfileMissing(ps, u) THEN ps
    ELSE [x \in DOMAIN ps \cup {u} |-> IF x = u THEN NewProfile(t) ELSE ps[x]]

\* the count query always answering that no marker exists
MarkerExists_Never(log, u, d) == FALSE

\* the count query without its user_id filter
MarkerExists_AnyUser(log, u, d) == \E m \in BagToSet(log) : m[2] = d

\* the count query of update_streak_on_activity
MarkerExists(log, u, d) == BagIn(<<u, d>>, log)

\* UniqueConstraint("user_id", "date"): may the row <<u, d>> be inserted
UqStreakDayAllows(log, u, d) == ~BagIn(<<u, d>>, log)

\* update_streak_on_activity resetting the streak on every new day
update_streak_on_activity_AlwaysReset(p, log, u, today) ==
    IF p.last_active = Some(today)
    THEN [profile |-> p, log |-> log, err |-> FALSE]
    ELSE LET delta == today - p.last_active[1]
             sc == IF p.last_active = None THEN 1
                   ELSE IF delta >= 1 THEN 1
                   ELSE p.streak_count
             q == [p EXCEPT !.streak_count = sc, !.last_active = Some(today)]
         IN  IF ~MarkerExists(log, u, today)
             THEN [profile |-> q,
                   log |-> log (+) SetToBag({<<u, today>>}),
                   err |-> ~UqStreakDayAllows(log, u, today)]
             ELSE [profile |-> q, log |-> log, err |-> FALSE]

\* update_streak_on_activity counting a day after a gap as the next day
update_streak_on_activity_NoReset(p, log, u, today) ==
    IF p.last_active = Some(today)
    THEN [profile |-> p, log |-> log, err |-> FALSE]
    ELSE LET delta == today - p.last_active[1]
             sc == IF p.last_active = None THEN 1
                   ELSE IF delta >= 1 THEN p.streak_count + 1
                   ELSE p.streak_count
             q == [p EXCEPT !.streak_count = sc, !.last_active = Some(today)]
         IN  IF ~MarkerExists(log, u, today)
             THEN [profile |-> q,
                   log |-> log (+) SetToBag({<<u, today>>}),
                   err |-> ~UqStreakDayAllows(log, u, today)]
             ELSE [profile |-> q, log |-> log, err |-> FALSE]

\* update_streak_on_activity adding no streak-day marker
update_streak_on_activity_NoMarker(p, log, u, today) ==
    IF p.last_active = Some(today)
    THEN [profile |-> p, log |-> log, err |-> FALSE]
    ELSE LET delta == today - p.last_active[1]
             sc == IF p.last_active = None THEN 1
                   ELSE IF delta = 1 THEN p.streak_count + 1
                   ELSE IF delta > 1 THEN 1
                   ELSE p.streak_count
             q == [p EXCEPT !.streak_count = sc, !.last_active = Some(today)]
         IN  [profile |-> q, log |-> log, err |-> FALSE]

\* update_streak_on_activity: the profile, the streak log and whether the
\* flush of the new marker fails on the unique constraint
update_streak_on_activity(p, log, u, today) ==
    IF p.last_active = Some(today)
    THEN [profile |-> p, log |-> log, err |-> FALSE]
    ELSE LET delta == today - p.last_active[1]
             sc == IF p.last_active = None THEN 1
                   ELSE IF delta = 1 THEN p.streak_count + 1
                   ELSE IF delta > 1 THEN 1
                   ELSE p.streak_count
             q == [p EXCEPT !.streak_count = sc, !.last_active = Some(today)]
         IN  IF ~MarkerExists(log, u, today)
             THEN [profile |-> q,
                   log |-> log (+) SetToBag({<<u, today>>}),
                   err |-> ~UqStreakDayAllows(log, u, today)]
             ELSE [profile |-> q, log |-> log, err |-> FALSE]

\* XP awarded whatever the verdict
Awarded_Always(is_correct) == XP_PER_CORRECT

\* the XP awarded for one answer
Awarded(is_correct) == IF is_correct THEN XP_PER_CORRECT ELSE 0

\* a heart lost without the floor at 0
HeartsAfterAnswer_NoFloor(h, is_correct) == IF is_correct THEN h ELSE h - 1

\* the hearts left after one answer
HeartsAfterAnswer(h, is_correct) == IF is_correct THEN h ELSE Max(0, h - 1)

\* apply_answer_outcome reporting the award without adding it to xp
apply_answer_outcome_NoXp(p, log, u, is_correct, today) ==
    LET q == [p EXCEPT !.hearts = HeartsAfterAnswer(p.hearts, is_correct)]
        s == update_streak_on_activity(q, log, u, today)
    IN  [profile |-> s.profile, log |-> s.log, err |-> s.err,
         awarded |-> Awarded(is_correct)]

\* apply_answer_outcome
apply_answer_outcome(p, log, u, is_correct, today) ==
    LET q == [p EXCEPT !.xp = p.xp + Awarded(is_correct),
                       !.hearts = HeartsAfterAnswer(p.hearts, is_correct)]
        s == update_streak_on_activity(q, log, u, today)
    IN  [profile |-> s.profile, log |-> s.log, err |-> s.err,
         awarded |-> Awarded(is_correct)]

\* _compute_hearts_refill returning the old anchor with the refilled hearts
compute_hearts_refill_NoAdvance(t, last, current) ==
    IF current >= HEARTS_MAX
    THEN <<current, IF last = None THEN t ELSE last[1]>>
    ELSE LET l == IF last = None THEN t ELSE last[1]
             minutes == (t - l) \div TicksPerMinute
             refills == minutes \div HEARTS_REGEN_INTERVAL_MINUTES
         IN  IF minutes <= 0 THEN <<current, l>>
             ELSE IF refills <= 0 THEN <<current, l>>
             ELSE <<Min(HEARTS_MAX, current + refills), l>>

\* _compute_hearts_refill snapping the anchor to now
compute_hearts_refill_SnapToNow(t, last, current) ==
    IF current >= HEARTS_MAX
    THEN <<current, IF last = None THEN t ELSE last[1]>>
    ELSE LET l == IF last = None THEN t ELSE last[1]
             minutes == (t - l) \div TicksPerMinute
             refills == minutes \div HEARTS_REGEN_INTERVAL_MINUTES
         IN  IF minutes <= 0 THEN <<current, l>>
             ELSE IF refills <= 0 THEN <<current, l>>
             ELSE <<Min(HEARTS_MAX, current + refills), t>>

\* _compute_hearts_refill advancing the anchor by the whole minutes elapsed
compute_hearts_refill_AdvanceElapsed(t, last, current) ==
    IF current >= HEARTS_MAX
    THEN <<current, IF last = None THEN t ELSE last[1]>>
    ELSE LET l == IF last = None THEN t ELSE last[1]
             minutes == (t - l) \div TicksPerMinute
             refills == minutes \div HEARTS_REGEN_INTERVAL_MINUTES
         IN  IF minutes <= 0 THEN <<current, l>>
             ELSE IF refills <= 0 THEN <<current, l>>
             ELSE <<Min(HEARTS_MAX, current + refills),
                    l + minutes * TicksPerMinute>>

\* _compute_hearts_refill(now, last, current) -> (hearts, last)
compute_hearts_refill(t, last, current) ==
    IF current >= HEARTS_MAX
    THEN <<current, IF last = None THEN t ELSE last[1]>>
    ELSE LET l == IF last = None THEN t ELSE last[1]
             minutes == (t - l) \div TicksPerMinute
             refills == minutes \div HEARTS_REGEN_INTERVAL_MINUTES
         IN  IF minutes <= 0 THEN <<current, l>>
             ELSE IF refills <= 0 THEN <<current, l>>
             ELSE <<Min(HEARTS_MAX, current + refills),
                    l + refills * HEARTS_REGEN_INTERVAL_MINUTES * TicksPerMinute>>

\* maybe_regen_hearts
maybe_regen_hearts(p, t) ==
    LET r == compute_hearts_refill(t, p.hearts_last_refill_at, p.hearts)
    IN  IF r[1] # p.hearts
        THEN [p EXCEPT !.hearts = r[1], !.hearts_last_refill_at = Some(r[2])]
        ELSE p

----------------------------------------------------------------------------
(* backend/routers/sessions.py *)

\* the difficulty update without the clamp at the top
AdjustDifficulty_NoClamp(p, is_correct) ==
    IF is_correct
    THEN IF p.correct_streak + 1 >= PROMOTION_STREAK
         THEN [p EXCEPT !.current_difficulty = p.current_difficulty + 1,
                        !.correct_streak = 0]
         ELSE [p EXCEPT !.correct_streak = p.correct_streak + 1]
    ELSE [p EXCEPT !.correct_streak = 0,
                   !.current_difficulty =
                       Max(MIN_DIFFICULTY, p.current_difficulty - 1)]

\* the difficulty update counting on through a promotion
AdjustDifficulty_CountOn(p, is_correct) ==
    IF is_correct
    THEN IF p.correct_streak + 1 >= PROMOTION_STREAK
         THEN [p EXCEPT !.current_difficulty =
                            Min(MAX_DIFFICULTY, p.current_difficulty + 1),
                        !.correct_streak = p.correct_streak + 1]
         ELSE [p EXCEPT !.correct_streak = p.correct_streak + 1]
    ELSE [p EXCEPT !.correct_streak = 0,
                   !.current_difficulty =
                       Max(MIN_DIFFICULTY, p.current_difficulty - 1)]

\* the difficulty update promoting only above the threshold
AdjustDifficulty_LatePromotion(p, is_correct) ==
    IF is_correct
    THEN IF p.correct_streak + 1 > PROMOTION_STREAK
         THEN [p EXCEPT !.current_difficulty =
                            Min(MAX_DIFFICULTY, p.current_difficulty + 1),
                        !.correct_streak = 0]
         ELSE [p EXCEPT !.correct_streak = p.correct_streak + 1]
    ELSE [p EXCEPT !.correct_streak = 0,
                   !.current_difficulty =
                       Max(MIN_DIFFICULTY, p.current_difficulty - 1)]

\* the difficulty update keeping correct_streak on an incorrect answer
AdjustDifficulty_KeepStreak(p, is_correct) ==
    IF is_correct
    THEN IF p.correct_streak + 1 >= PROMOTION_STREAK
         THEN [p EXCEPT !.current_difficulty =
                            Min(MAX_DIFFICULTY, p.current_difficulty + 1),
                        !.correct_streak = 0]
         ELSE [p EXCEPT !.correct_streak = p.correct_streak + 1]
    ELSE [p EXCEPT !.current_difficulty =
                       Max(MIN_DIFFICULTY, p.current_difficulty - 1)]

\* the adaptive difficulty update of submit_answer
AdjustDifficulty(p, is_correct) ==
    IF is_correct
    THEN IF p.correct_streak + 1 >= PROMOTION_STREAK
         THEN [p EXCEPT !.current_difficulty =
                            Min(MAX_DIFFICULTY, p.current_difficulty + 1),
                        !.correct_streak = 0]
         ELSE [p EXCEPT !.correct_streak = p.correct_streak + 1]
    ELSE [p EXCEPT !.correct_streak = 0,
                   !.current_difficulty =
                       Max(MIN_DIFFICULTY, p.current_difficulty - 1)]

----------------------------------------------------------------------------
(* backend/services/grading.py *)
(* A str is a sequence of one-character strings.                           *)

\* "abcdefghijklmnopqrstuvwxyz", and the upper-case letters in the same order
AsciiLower ==
    <<"a", "b", "c", "d", "e", "f", "g", "h", "i", "j", "k", "l", "m",
      "n", "o", "p", "q", "r", "s", "t", "u", "v", "w", "x", "y", "z">>

AsciiUpper ==
    <<"A", "B", "C", "D", "E", "F", "G", "H", "I", "J", "K", "L", "M",
      "N", "O", "P", "Q", "R", "S", "T", "U", "V", "W", "X", "Y", "Z">>

\* cased letters outside ASCII that the catalog uses
OtherLower == <<"í", "ó", "á", "é">>
OtherUpper == <<"Í", "Ó", "Á", "É">>

\* the characters str.strip() removes
Whitespace == {" ", "\t", "\n"}

\* the characters int() reads as decimal digits, in order of value
DecimalDigits == <<"0", "1", "2", "3", "4", "5", "6", "7", "8", "9">>

\* characters str.isdigit() accepts and int() rejects
SuperscriptDigits == {"²", "³"}

\* the position of c in the sequence q, 0 when it is not there
IndexOf(q, c) ==
    IF \E i \in 1..Len(q) : q[i] = c
    THEN CHOOSE i \in 1..Len(q) : q[i] = c
    ELSE 0

\* str.lower() of one character
LowerChar(c) ==
    IF IndexOf(AsciiUpper, c) > 0 THEN AsciiLower[IndexOf(AsciiUpper, c)]
    ELSE IF IndexOf(OtherUpper, c) > 0 THEN OtherLower[IndexOf(OtherUpper, c)]
    ELSE c

\* str.lower()
Lower(s) == [i \in 1..Len(s) |-> LowerChar(s[i])]

RECURSIVE LStrip(_)
\* str.lstrip()
LStrip(s) ==
    IF s # <<>> /\ Head(s) \in Whitespace THEN LStrip(Tail(s)) ELSE s

RECURSIVE RStrip(_)
\* str.rstrip()
RStrip(s) ==
    IF s # <<>> /\ s[Len(s)] \in Whitespace
    THEN RStrip(SubSeq(s, 1, Len(s) - 1))
    ELSE s

\* str.strip()
Strip(s) == RStrip(LStrip(s))

\* _normalize without the lower-casing
normalize_NoLower(text) == Strip(text)

\* _normalize
normalize(text) == Lower(Strip(text))

\* str.isdigit()
IsDigit(s) ==
    /\ s # <<>>
    /\ \A i \in 1..Len(s) :
          IndexOf(DecimalDigits, s[i]) > 0 \/ s[i] \in SuperscriptDigits

\* int(s) of a str that passed isdigit() raises ValueError
IntRaises(s) == \E i \in 1..Len(s) : IndexOf(DecimalDigits, s[i]) = 0

RECURSIVE IntValue(_)
\* int(s) of a str of decimal digits
IntValue(s) ==
    IF s = <<>> THEN 0
    ELSE 10 * IntValue(SubSeq(s, 1, Len(s) - 1))
             + (IndexOf(DecimalDigits, s[Len(s)]) - 1)

\* the letter index counted from 1
LetterIndex_OneBased(raw) == IndexOf(AsciiLower, LowerChar(raw[1]))

\* ord(raw.lower()) - ord("a") of a one-letter str
LetterIndex(raw) == IndexOf(AsciiLower, LowerChar(raw[1])) - 1

\* len(raw) == 1 and raw.lower() in "abcdefghijklmnopqrstuvwxyz"
IsLetter(raw) == Len(raw) = 1 /\ IndexOf(AsciiLower, LowerChar(raw[1])) > 0

RECURSIVE MatchLen(_, _, _, _, _, _)
\* the length of the common run of a[i..ahi] and b[j..bhi] from their starts
MatchLen(a, b, i, j, ahi, bhi) ==
    IF i > ahi \/ j > bhi \/ a[i] # b[j] THEN 0
    ELSE 1 + MatchLen(a, b, i + 1, j + 1, ahi, bhi)

\* SequenceMatcher.find_longest_match on a[alo..ahi], b[blo..bhi]: the longest
\* block, the earliest in a and then the earliest in b among the longest
FindLongestMatch(a, b, alo, ahi, blo, bhi) ==
    LET blocks == {<<i, j, MatchLen(a, b, i, j, ahi, bhi)>> :
                      i \in alo..ahi, j \in blo..bhi}
        best == CHOOSE x \in blocks :
                    \A y \in blocks :
                        \/ x[3] > y[3]
                        \/ x[3] = y[3] /\ x[1] < y[1]
                        \/ x[3] = y[3] /\ x[1] = y[1] /\ x[2] <= y[2]
    IN  IF blocks = {} THEN <<alo, blo, 0>> ELSE best

RECURSIVE Matches(_, _, _, _, _, _)
\* the total size of SequenceMatcher.get_matching_blocks on a[alo..ahi],
\* b[blo..bhi]
Matches(a, b, alo, ahi, blo, bhi) ==
    LET m == FindLongestMatch(a, b, alo, ahi, blo, bhi)
    IN  IF m[3] = 0 THEN 0
        ELSE m[3] + Matches(a, b, alo, m[1] - 1, blo, m[2] - 1)
                  + Matches(a, b, m[1] + m[3], ahi, m[2] + m[3], bhi)

\* SequenceMatcher(None, a, b).ratio() > 0.85, the ratio being 2 * M / T
RatioAbove85(a, b) ==
    LET T == Len(a) + Len(b)
    IN  IF T = 0 THEN TRUE
        ELSE 2 * Matches(a, b, 1, Len(a), 1, Len(b)) * 100 > 85 * T

\* the feedback texts
Feedback(text) == <<text>>
FeedbackExpected(expected) == <<"Expected: ">> \o expected

ChoiceTypes == {"mcq", "multiple_choice"}

\* the choice an answer selects in a choice-type exercise, or that int() raises
SelectedChoice(raw, choices) ==
    IF IsLetter(raw) /\ choices # <<>>
    THEN [raised |-> FALSE,
          value |-> IF 0 <= LetterIndex(raw) /\ LetterIndex(raw) < Len(choices)
                    THEN choices[LetterIndex(raw) + 1] ELSE raw]
    ELSE IF IsDigit(raw) /\ choices # <<>>
    THEN IF IntRaises(raw) THEN [raised |-> TRUE, value |-> raw]
         ELSE LET idx == IntValue(raw) - 1
              IN  [raised |-> FALSE,
                   value |-> IF 0 <= idx /\ idx < Len(choices)
                             THEN choices[idx + 1] ELSE raw]
    ELSE [raised |-> FALSE, value |-> raw]

\* grade_answer(exercise, answer): the verdict and the feedback, or that the
\* call raised
grade_answer(exercise, answer) ==
    LET user == answer
        expected == IF exercise.answer_key = None THEN <<>>
                    ELSE exercise.answer_key[1]
        choices == IF exercise.choices = None THEN <<>> ELSE exercise.choices[1]
    IN  IF exercise.type \in ChoiceTypes
        THEN LET sel == SelectedChoice(Strip(user), choices)
                 ok == normalize(sel.value) = normalize(expected)
             IN  IF sel.raised
                 THEN [raised |-> TRUE, is_correct |-> FALSE,
                       feedback |-> Feedback("ValueError")]
                 ELSE [raised |-> FALSE, is_correct |-> ok,
                       feedback |-> IF ok THEN Feedback("Correct!")
                                    ELSE Feedback("Incorrect.")]
        ELSE IF normalize(user) = normalize(expected)
        THEN [raised |-> FALSE, is_correct |-> TRUE,
              feedback |-> Feedback("Correct!")]
        ELSE IF RatioAbove85(normalize(user), normalize(expected))
        THEN [raised |-> FALSE, is_correct |-> FALSE,
              feedback |-> Feedback("Close! Watch spelling or accents.")]
        ELSE [raised |-> FALSE, is_correct |-> FALSE,
              feedback |-> FeedbackExpected(expected)]

----------------------------------------------------------------------------
(* backend/services/session_engine.py *)
(* An exercise table is a function from Exercise.id to the row, a lesson   *)
(* table a function from Lesson.id to the row; a result is a sequence of   *)
(* Exercise.id.                                                            *)

Abs(x) == IF x < 0 THEN 0 - x ELSE x

\* select(Lesson.id).where((Lesson.lang == lang) | (meta["lang"] == lang))
LessonIdsOf(lessons, lang) ==
    {l \in DOMAIN lessons :
        lessons[l].lang = Some(lang) \/ lessons[l].meta_lang = Some(lang)}

\* the signed difference as sort key
SortKey_NoAbs(ex, target) == ex.difficulty - target

\* func.abs(Exercise.difficulty - target)
SortKey(ex, target) == Abs(ex.difficulty - target)

\* ORDER BY key, random() LIMIT n: every sequence the database may return for
\* the rows, a row of least key first, rows of equal key in any order
RECURSIVE OrderByLimit(_, _, _)
OrderByLimit(rows, key, n) ==
    IF n = 0 \/ rows = {} THEN {<<>>}
    ELSE LET least == {r \in rows : \A q \in rows : key[r] <= key[q]}
         IN  UNION {{<<r>> \o rest :
                        rest \in OrderByLimit(rows \ {r}, key, n - 1)} :
                    r \in least}

\* the results select_session_exercises may return
select_session_exercises(catalog, lessons, lesson_id, limit, learning_language, profile) ==
    LET ids == DOMAIN catalog
        random == [e \in ids |-> 0]
    IN  IF lesson_id # None
        THEN OrderByLimit({e \in ids : catalog[e].lesson_id = lesson_id[1]},
                          random, limit)
        ELSE IF learning_language # None
        THEN LET lesson_ids == LessonIdsOf(lessons, learning_language[1])
                 rows == {e \in ids : catalog[e].lesson_id \in lesson_ids}
             IN  IF profile # None
                 THEN LET target ==
                              Max(MIN_DIFFICULTY,
                                  Min(MAX_DIFFICULTY,
                                      profile[1].current_difficulty))
                      IN  OrderByLimit(
                              rows,
                              [e \in ids |-> SortKey(catalog[e], target)],
                              limit)
                 ELSE OrderByLimit(rows, random, limit)
        ELSE OrderByLimit(ids, random, limit)

----------------------------------------------------------------------------
(* backend/services/srs.py *)
(* An attempt of a query result is [is_correct, created_at]; created_at is *)
(* the server's timestamp of the insert, in ticks.                         *)

\* .limit(10) of the attempts query
ATTEMPTS_QUERY_LIMIT == 10

\* the largest interval, in days
MAX_INTERVAL_DAYS == 32

RECURSIVE compute_streak(_)
compute_streak(recent) ==
    IF recent = <<>> THEN 0
    ELSE IF Head(recent).is_correct THEN 1 + compute_streak(Tail(recent))
    ELSE 0

RECURSIVE Pow2(_)
Pow2(n) == IF n = 0 THEN 1 ELSE 2 * Pow2(n - 1)

\* min(32, 2 ** max(0, streak))
IntervalDays(streak) == Min(MAX_INTERVAL_DAYS, Pow2(Max(0, streak)))

\* select(Attempt).where(...).order_by(Attempt.created_at.desc()).limit(10)
\* over the learner's attempts of one exercise, given in insertion order:
\* every sequence the database may return, attempts of equal created_at in
\* any order
AttemptsQuery(log) ==
    LET key == [i \in DOMAIN log |-> 0 - log[i].created_at]
    IN  {[i \in 1..Len(s) |-> log[s[i]]] :
            s \in OrderByLimit(DOMAIN log, key, ATTEMPTS_QUERY_LIMIT)}

\* ex in due_list
InList(ex, list) == \E i \in 1..Len(list) : list[i] = ex

\* the first loop of due_exercises from all_exercises[i] on
RECURSIVE DueLoop(_, _, _, _, _, _)
DueLoop(all_exercises, i, due_list, results, today, limit) ==
    IF i > Len(all_exercises) THEN due_list
    ELSE LET ex == all_exercises[i]
             recent == results[ex]
         IN  IF recent = <<>>
             THEN DueLoop(all_exercises, i + 1, Append(due_list, ex),
                          results, today, limit)
             ELSE LET streak == compute_streak(recent)
                      last_date == Today(recent[1].created_at)
                      due_date == last_date + IntervalDays(streak)
                      list == IF due_date <= today
                              THEN Append(due_list, ex) ELSE due_list
                  IN  IF Len(list) >= limit THEN list
                      ELSE DueLoop(all_exercises, i + 1, list,
                                   results, today, limit)

\* the padding loop of due_exercises from all_exercises[i] on
RECURSIVE PadLoop(_, _, _, _)
PadLoop(all_exercises, i, due_list, limit) ==
    IF i > Len(all_exercises) THEN due_list
    ELSE IF InList(all_exercises[i], due_list)
    THEN PadLoop(all_exercises, i + 1, due_list, limit)
    ELSE LET list == Append(due_list, all_exercises[i])
         IN  IF Len(list) >= limit THEN list
             ELSE PadLoop(all_exercises, i + 1, list, limit)

\* the whole list in place of its first limit entries
Slice_All(list, limit) == list

\* list[:limit] for limit >= 0
Slice(list, limit) == SubSeq(list, 1, Min(limit, Len(list)))

\* due_exercises on the catalog all_exercises, results[ex] being what the
\* attempts query returned for ex; due_list is the list before the padding
due_exercises(all_exercises, results, today, limit) ==
    LET due_list == DueLoop(all_exercises, 1, <<>>, results, today, limit)
        padded == IF Len(due_list) < limit
                  THEN PadLoop(all_exercises, 1, due_list, limit)
                  ELSE due_list
    IN  [due_list |-> due_list, result |-> Slice(padded, limit)]

----------------------------------------------------------------------------
(* History *)

NoEvent ==
    [op |-> "none", user |-> "u1", exercise |-> "", is_correct |-> FALSE,
     awarded |-> 0,
     err |-> FALSE, not_found |-> FALSE, marker_existed |-> FALSE,
     inserted |-> FALSE, pre |-> NewProfile(0)]

NoRun == [d0 |-> 0, n |-> 0]

\* the run of consecutive correct submissions after one more submission
RunAfter(r, p, is_correct) ==
    IF ~is_correct THEN NoRun
    ELSE IF p.correct_streak = 0 THEN [d0 |-> p.current_difficulty, n |-> 1]
    ELSE IF r.n > 0 THEN [d0 |-> r.d0, n |-> r.n + 1]
    ELSE NoRun

NoCall == [pc |-> "idle"]

IdleRg == [pc |-> "idle", now |-> 0, last |-> None, cur |-> 0,
           r1 |-> <<0, 0>>, r2 |-> <<0, 0>>]

----------------------------------------------------------------------------
(* Requests *)

\* a session closed with its writes kept
Rollback_Keep(committed, pending) == pending

\* get_session closing a session that was never committed: the writes
\* flushed in it are rolled back
Rollback(committed, pending) == committed

\* session.get(Exercise, exercise_id) finding no row
ExerciseMissing(e) == e \notin DOMAIN exercises

\* the row with awarded_xp left at its column default
Attempt_NoAward(u, e, is_correct, awarded, level) ==
    [user_id |-> u, exercise_id |-> e, is_correct |-> is_correct,
     awarded_xp |-> 0, level |-> level]

\* Attempt(user_id=..., exercise_id=..., is_correct=..., awarded_xp=..., level=...);
\* id, answer, time_ms and the server's created_at are left out of the row
Attempt(u, e, is_correct, awarded, level) ==
    [user_id |-> u, exercise_id |-> e, is_correct |-> is_correct,
     awarded_xp |-> awarded, level |-> level]

\* a catalog of one exercise
OneExercise == [x \in {"e1"} |-> [lesson_id |-> "l1", difficulty |-> 1]]

\* POST /sessions/submit for an existing exercise graded is_correct; a failed
\* flush rolls the whole transaction back
SubmitAnswer(u, e, is_correct, xpCap, logCap) ==
    LET ps == ensure_user_and_profile(profiles, u, now)
        p0 == ps[u]
        p1 == AdjustDifficulty(p0, is_correct)
        o  == apply_answer_outcome(p1, streak_log, u, is_correct, Today(now))
    IN  IF ExerciseMissing(e)
        THEN /\ ev' = [NoEvent EXCEPT !.op = "submit", !.user = u,
                                      !.exercise = e, !.err = TRUE,
                                      !.not_found = TRUE,
                                      !.inserted = ProfileMissing(profiles, u),
                                      !.pre = p0]
             /\ users' = Rollback(users, users \cup {u})
             /\ profiles' = Rollback(profiles, ps)
             /\ UNCHANGED <<now, streak_log, attempts, exercises, run, rg, call>>
        ELSE /\ p0.xp + Awarded(is_correct) <= xpCap
             /\ BagCardinality(attempts) < logCap
             /\ p0.streak_count < MaxStreak
             /\ ev' = [op |-> "submit", user |-> u, exercise |-> e,
                       is_correct |-> is_correct,
                       awarded |-> o.awarded, err |-> o.err,
                       not_found |-> FALSE,
                       marker_existed |-> MarkerExists(streak_log, u, Today(now)),
                       inserted |-> ProfileMissing(profiles, u),
                       pre |-> p0]
             /\ IF o.err
                THEN UNCHANGED <<users, profiles, streak_log, attempts, run>>
                ELSE /\ users' = users \cup {u}
                     /\ profiles' = [x \in DOMAIN ps |->
                                        IF x = u THEN o.profile ELSE ps[x]]
                     /\ streak_log' = o.log
                     /\ attempts' = attempts (+) SetToBag(
                                       {Attempt(u, e, is_correct, o.awarded,
                                                exercises[e].difficulty)})
                     /\ run' = RunAfter(run, p0, is_correct)
             /\ UNCHANGED <<now, exercises, rg, call>>

\* the UPDATE of a flush: the columns the session changed are written, the
\* others keep what the row holds
FlushProfile(row, pre, post) ==
    [f \in DOMAIN row |-> IF post[f] # pre[f] THEN post[f] ELSE row[f]]

\* POST /sessions/submit served next to other requests, each request in a
\* session and a connection of its own on the SQLite file of config.py.
\* SubmitGet: ensure_user_and_profile reads the learner's row; a read sees
\* what is committed and holds no lock.
SubmitGet(r, u, e) ==
    /\ call.pc = "serving"
    /\ r \notin DOMAIN call.pending
    /\ ~ExerciseMissing(e)
    /\ call' = [call EXCEPT !.pending =
                   [x \in DOMAIN call.pending \cup {r} |->
                       IF x = r
                       THEN [pc |-> "got", user |-> u, exercise |-> e,
                             got |-> IF ProfileMissing(profiles, u) THEN None
                                     ELSE Some(profiles[u])]
                       ELSE call.pending[x]]]
    /\ ev' = [NoEvent EXCEPT !.op = "get", !.user = u, !.exercise = e]
    /\ UNCHANGED <<now, users, profiles, streak_log, attempts, exercises, run, rg>>

\* SubmitFlush: the first write of the session takes the write lock of the
\* database, which another session may hold until its commit: the INSERT of
\* the flush of ensure_user_and_profile for a learner read as missing, which
\* fails on the primary key when the row was committed since, or else the
\* UPDATE of the changed profile that the autoflush of the count query of
\* update_streak_on_activity sends ahead of the query. The count then reads
\* the committed markers and the writes stay pending.
SubmitFlush(r, is_correct, xpCap, logCap) ==
    /\ call.pc = "serving"
    /\ r \in DOMAIN call.pending
    /\ call.pending[r].pc = "got"
    /\ \A x \in DOMAIN call.pending : call.pending[x].pc # "flushed"
    /\ LET q  == call.pending[r]
           u  == q.user
           pk == q.got = None /\ ~ProfileMissing(profiles, u)
           p0 == IF q.got = None THEN NewProfile(now) ELSE q.got[1]
           p1 == AdjustDifficulty(p0, is_correct)
           o  == apply_answer_outcome(p1, streak_log, u, is_correct, Today(now))
       IN  /\ p0.xp + Awarded(is_correct) <= xpCap
           /\ BagCardinality(attempts) < logCap
           /\ p0.streak_count < MaxStreak
           /\ IF pk
              THEN /\ ev' = [NoEvent EXCEPT !.op = "submit", !.user = u,
                                            !.exercise = q.exercise,
                                            !.is_correct = is_correct,
                                            !.err = TRUE, !.inserted = TRUE,
                                            !.pre = p0]
                   /\ call' = [call EXCEPT !.pending =
                                  [x \in DOMAIN call.pending \ {r} |->
                                      call.pending[x]]]
              ELSE /\ ev' = [NoEvent EXCEPT !.op = "flush", !.user = u,
                                            !.exercise = q.exercise,
                                            !.is_correct = is_correct,
                                            !.pre = p0]
                   /\ call' = [call EXCEPT !.pending[r] =
                                  [pc |-> "flushed", user |-> u,
                                   exercise |-> q.exercise, got |-> q.got,
                                   is_correct |-> is_correct,
                                   awarded |-> o.awarded, pre |-> p0,
                                   post |-> o.profile, today |-> Today(now),
                                   marker_existed |->
                                       MarkerExists(streak_log, u, Today(now)),
                                   adds_marker |-> o.log # streak_log]]
    /\ UNCHANGED <<now, users, profiles, streak_log, attempts, exercises, run, rg>>

\* SubmitCommit: the flush of the commit inserts the attempt and the pending
\* marker, which fails on uq_streak_day when the table holds the marker; the
\* commit makes the writes of the session visible and frees the write lock
SubmitCommit(r) ==
    /\ call.pc = "serving"
    /\ r \in DOMAIN call.pending
    /\ call.pending[r].pc = "flushed"
    /\ LET q == call.pending[r]
           fails == q.adds_marker /\ ~UqStreakDayAllows(streak_log, q.user, q.today)
       IN  /\ ev' = [op |-> "submit", user |-> q.user, exercise |-> q.exercise,
                     is_correct |-> q.is_correct, awarded |-> q.awarded,
                     err |-> fails, not_found |-> FALSE,
                     marker_existed |-> q.marker_existed,
                     inserted |-> q.got = None, pre |-> q.pre]
           /\ IF fails
              THEN UNCHANGED <<users, profiles, streak_log, attempts>>
              ELSE /\ users' = users \cup {q.user}
                   /\ profiles' =
                          [x \in DOMAIN profiles \cup {q.user} |->
                              IF x # q.user THEN profiles[x]
                              ELSE IF q.got = None THEN q.post
                              ELSE FlushProfile(profiles[x], q.pre, q.post)]
                   /\ streak_log' =
                          IF q.adds_marker
                          THEN streak_log (+) SetToBag({<<q.user, q.today>>})
                          ELSE streak_log
                   /\ attempts' = attempts (+) SetToBag(
                                     {Attempt(q.user, q.exercise, q.is_correct,
                                              q.awarded,
                                              exercises[q.exercise].difficulty)})
    /\ call' = [call EXCEPT !.pending =
                   [x \in DOMAIN call.pending \ {r} |-> call.pending[x]]]
    /\ UNCHANGED <<now, exercises, run, rg>>

\* GET /gamification/status
Status(u) ==
    LET ps == ensure_user_and_profile(profiles, u, now)
        p0 == ps[u]
    IN  /\ ev' = [NoEvent EXCEPT !.op = "status", !.user = u,
                                  !.inserted = ProfileMissing(profiles, u),
                                  !.pre = p0]
        /\ users' = users \cup {u}
        /\ profiles' = [x \in DOMAIN ps |->
                           IF x = u THEN maybe_regen_hearts(p0, now) ELSE ps[x]]
        /\ UNCHANGED <<now, streak_log, attempts, exercises, run, rg, call>>

\* POST /sessions/start with learning_language absent or given; the exercises
\* selected are the response and leave the database as it is
StartSession(u, learning_language) ==
    LET ps == ensure_user_and_profile(profiles, u, now)
        p0 == ps[u]
        p1 == IF p0.learning_language = None /\ learning_language = None
              THEN p0
              ELSE IF learning_language # None
              THEN [p0 EXCEPT !.learning_language = learning_language]
              ELSE p0
    IN  /\ ev' = [NoEvent EXCEPT !.op = "start", !.user = u,
                                  !.inserted = ProfileMissing(profiles, u),
                                  !.pre = p0]
        /\ users' = users \cup {u}
        /\ profiles' = [x \in DOMAIN ps |-> IF x = u THEN p1 ELSE ps[x]]
        /\ UNCHANGED <<now, streak_log, attempts, exercises, run, rg, call>>

\* GET /srs/due: due_exercises reads the tables, the commit has nothing to
\* write; the list returned is the response
DueReview(u, limit) ==
    /\ ev' = [NoEvent EXCEPT !.op = "due", !.user = u]
    /\ UNCHANGED <<now, users, profiles, streak_log, attempts, exercises,
                   run, rg, call>>

\* the wall clock moves to another instant of T
Tick(T) ==
    /\ \E t \in T \ {now} : now' = t
    /\ ev' = [NoEvent EXCEPT !.op = "tick"]
    /\ UNCHANGED <<users, profiles, streak_log, attempts, exercises, run, rg, call>>

----------------------------------------------------------------------------
(* Specifications *)

EmptyProfiles == [x \in {} |-> NewProfile(0)]

\* a database migrated from the schema without hearts_last_refill_at
LegacyProfiles == [x \in {"u1"} |-> LegacyProfile]

Init ==
    /\ now = 0
    /\ profiles \in {EmptyProfiles, LegacyProfiles}
    /\ users = DOMAIN profiles
    /\ streak_log = EmptyBag
    /\ attempts = EmptyBag
    /\ exercises = OneExercise
    /\ ev = NoEvent
    /\ run = NoRun
    /\ rg = IdleRg
    /\ call = NoCall

\* difficulty: the clock stands still, many submissions
DifficultyClock == {0, TicksPerDay}

NextDifficulty ==
    \/ \E u \in Users, e \in DOMAIN exercises :
          SubmitAnswer(u, e, TRUE, MaxXpDifficulty, MaxLogDifficulty)
    \/ \E u \in Users, e \in DOMAIN exercises :
          SubmitAnswer(u, e, FALSE, MaxXpDifficulty, MaxLogDifficulty)
    \/ \E u \in Users : Status(u)
    \/ Tick(DifficultyClock)

SpecDifficulty == Init /\ [][NextDifficulty]_vars

\* hearts: the clock moves by ticks within MaxLedgerMinutes minutes, or to
\* the instant at which HEARTS_MAX refills are due
HeartsClock ==
    0..(MaxLedgerMinutes * TicksPerMinute)
        \cup {HEARTS_MAX * HEARTS_REGEN_INTERVAL_MINUTES * TicksPerMinute}

NextHearts ==
    \/ \E u \in Users, e \in DOMAIN exercises :
          SubmitAnswer(u, e, TRUE, MaxXpLedger, MaxLogLedger)
    \/ \E u \in Users, e \in DOMAIN exercises :
          SubmitAnswer(u, e, FALSE, MaxXpLedger, MaxLogLedger)
    \/ \E u \in Users : Status(u)
    \/ Tick(HeartsClock)

SpecHearts == Init /\ [][NextHearts]_vars

\* streak: the clock moves by whole days, forwards and backwards
StreakClock == {d * TicksPerDay : d \in 0..MaxDay}

NextStreak ==
    \/ \E u \in Users, e \in DOMAIN exercises :
          SubmitAnswer(u, e, TRUE, MaxXpLedger, MaxLogLedger)
    \/ \E u \in Users, e \in DOMAIN exercises :
          SubmitAnswer(u, e, FALSE, MaxXpLedger, MaxLogLedger)
    \/ \E u \in Users : Status(u)
    \/ Tick(StreakClock)

SpecStreak == Init /\ [][NextStreak]_vars

\* streak with a calendar clock that never goes backwards
NextStreakForward ==
    \/ \E u \in Users, e \in DOMAIN exercises :
          SubmitAnswer(u, e, TRUE, MaxXpLedger, MaxLogLedger)
    \/ \E u \in Users, e \in DOMAIN exercises :
          SubmitAnswer(u, e, FALSE, MaxXpLedger, MaxLogLedger)
    \/ \E u \in Users : Status(u)
    \/ Tick({t \in StreakClock : t > now})

SpecStreakForward == Init /\ [][NextStreakForward]_vars

\* a catalog of two exercises of different difficulty
TwoExercises ==
    [x \in {"e1", "e2"} |->
        [lesson_id |-> "l1", difficulty |-> IF x = "e1" THEN 1 ELSE 2]]

InitAttempts ==
    /\ now = 0
    /\ profiles = EmptyProfiles
    /\ users = {}
    /\ streak_log = EmptyBag
    /\ attempts = EmptyBag
    /\ exercises = TwoExercises
    /\ ev = NoEvent
    /\ run = NoRun
    /\ rg = IdleRg
    /\ call = NoCall

\* an Exercise.id the catalog does not hold
UnknownExercises == {"e0"}

\* attempts: every request of a learner, on two days
AttemptsClock == {0, TicksPerDay}

NextAttempts ==
    \/ \E u \in Users, e \in DOMAIN exercises :
          SubmitAnswer(u, e, TRUE, MaxXpLedger, MaxLogLedger)
    \/ \E u \in Users, e \in DOMAIN exercises :
          SubmitAnswer(u, e, FALSE, MaxXpLedger, MaxLogLedger)
    \/ \E u \in Users, e \in UnknownExercises :
          SubmitAnswer(u, e, FALSE, MaxXpLedger, MaxLogLedger)
    \/ \E u \in Users : Status(u)
    \/ \E u \in Users : StartSession(u, None)
    \/ \E u \in Users : StartSession(u, Some("es"))
    \/ \E u \in Users, limit \in 0..MaxLimit : DueReview(u, limit)
    \/ Tick(AttemptsClock)

SpecAttempts == InitAttempts /\ [][NextAttempts]_vars

\* two learners: every request of each, in any order, on two days
Learners == {"u1", "u2"}

InitLearners ==
    /\ now = 0
    /\ profiles = EmptyProfiles
    /\ users = {}
    /\ streak_log = EmptyBag
    /\ attempts = EmptyBag
    /\ exercises = OneExercise
    /\ ev = NoEvent
    /\ run = NoRun
    /\ rg = IdleRg
    /\ call = NoCall

NextLearners ==
    \/ \E u \in Learners, e \in DOMAIN exercises :
          SubmitAnswer(u, e, TRUE, MaxXpLedger, MaxLogLearners)
    \/ \E u \in Learners, e \in DOMAIN exercises :
          SubmitAnswer(u, e, FALSE, MaxXpLedger, MaxLogLearners)
    \/ \E u \in Learners, e \in UnknownExercises :
          SubmitAnswer(u, e, FALSE, MaxXpLedger, MaxLogLearners)
    \/ \E u \in Learners : Status(u)
    \/ \E u \in Learners : StartSession(u, None)
    \/ \E u \in Learners : StartSession(u, Some("es"))
    \/ \E u \in Learners, limit \in 0..MaxLimit : DueReview(u, limit)
    \/ Tick(AttemptsClock)

SpecLearners == InitLearners /\ [][NextLearners]_vars

\* hearts below HEARTS_MAX, the anchor stored or NULL as the migration of
\* db.py leaves it, then status requests while the clock advances; the
\* requests keep coming and the clock keeps advancing
HealClock == {m * HealStepMinutes * TicksPerMinute : m \in 0..MaxHealSteps}

InitHeal ==
    /\ now = 0
    /\ \E h \in 0..(HEARTS_MAX - 1), l \in {None, Some(0)} :
          profiles = [x \in {"u1"} |->
                         [NewProfile(0) EXCEPT !.hearts = h,
                                               !.hearts_last_refill_at = l]]
    /\ users = {"u1"}
    /\ streak_log = EmptyBag
    /\ attempts = EmptyBag
    /\ exercises = OneExercise
    /\ ev = NoEvent
    /\ run = NoRun
    /\ rg = IdleRg
    /\ call = NoCall

StatusRequest == \E u \in Users : Status(u)

ClockAdvance == Tick({t \in HealClock : t > now})

NextHeal == StatusRequest \/ ClockAdvance

SpecHeal ==
    /\ InitHeal
    /\ [][NextHeal]_vars
    /\ WF_vars(StatusRequest)
    /\ WF_vars(ClockAdvance)

\* submissions of one learner served at the same time, each in its own
\* session
Requests == {"r1", "r2"}

InitConcurrent ==
    /\ now = 0
    /\ profiles = EmptyProfiles
    /\ users = {}
    /\ streak_log = EmptyBag
    /\ attempts = EmptyBag
    /\ exercises = OneExercise
    /\ ev = NoEvent
    /\ run = NoRun
    /\ rg = IdleRg
    /\ call = [pc |-> "serving", pending |-> <<>>]

NextConcurrent ==
    \/ \E r \in Requests, u \in Users, e \in DOMAIN exercises : SubmitGet(r, u, e)
    \/ \E r \in Requests : SubmitFlush(r, TRUE, MaxXpLedger, MaxLogLedger)
    \/ \E r \in Requests : SubmitFlush(r, FALSE, MaxXpLedger, MaxLogLedger)
    \/ \E r \in Requests : SubmitCommit(r)
    \/ (call.pending = <<>> /\ \E u \in Users : Status(u))
    \/ (call.pending = <<>> /\ Tick({t \in AttemptsClock : t > now}))

SpecConcurrent == InitConcurrent /\ [][NextConcurrent]_vars

\* _compute_hearts_refill on every input within the bounds, called once and
\* then again on what it returned
RegenInstants == 0..(MaxMinutes * TicksPerMinute)

InitRegen ==
    /\ now = 0
    /\ profiles = EmptyProfiles
    /\ users = {}
    /\ streak_log = EmptyBag
    /\ attempts = EmptyBag
    /\ exercises = OneExercise
    /\ ev = NoEvent
    /\ run = NoRun
    /\ call = NoCall
    /\ \E t \in RegenInstants, c \in 0..HEARTS_MAX,
          l \in {None} \cup {Some(x) : x \in RegenInstants} :
          rg = [IdleRg EXCEPT !.pc = "start", !.now = t, !.last = l, !.cur = c]

RegenOnce ==
    /\ rg.pc = "start"
    /\ rg' = [rg EXCEPT !.pc = "once",
                        !.r1 = compute_hearts_refill(rg.now, rg.last, rg.cur)]
    /\ UNCHANGED <<now, users, profiles, streak_log, attempts, exercises, ev, run, call>>

RegenTwice ==
    /\ rg.pc = "once"
    /\ rg' = [rg EXCEPT !.pc = "twice",
                        !.r2 = compute_hearts_refill(rg.now, Some(rg.r1[2]), rg.r1[1])]
    /\ UNCHANGED <<now, users, profiles, streak_log, attempts, exercises, ev, run, call>>

NextRegen == RegenOnce \/ RegenTwice

SpecRegen == InitRegen /\ [][NextRegen]_vars

\* _compute_hearts_refill at an instant and then at a later one, on what the
\* first call returned, next to one call at the later instant on the input
InitRegenPair ==
    /\ now = 0
    /\ profiles = EmptyProfiles
    /\ users = {}
    /\ streak_log = EmptyBag
    /\ attempts = EmptyBag
    /\ exercises = OneExercise
    /\ ev = NoEvent
    /\ run = NoRun
    /\ rg = IdleRg
    /\ \E c \in 0..HEARTS_MAX, l \in {None} \cup {Some(x) : x \in RegenInstants} :
          call = [pc |-> "start", last |-> l, cur |-> c]

RegenFirst ==
    /\ call.pc = "start"
    /\ \E t1 \in RegenInstants :
          call' = [pc |-> "first", last |-> call.last, cur |-> call.cur,
                   t1 |-> t1,
                   first |-> compute_hearts_refill(t1, call.last, call.cur)]
    /\ UNCHANGED <<now, users, profiles, streak_log, attempts, exercises, ev, run, rg>>

RegenSecond ==
    /\ call.pc = "first"
    /\ \E t2 \in {t \in RegenInstants : t >= call.t1} :
          call' = [pc |-> "second", last |-> call.last, cur |-> call.cur,
                   t1 |-> call.t1, t2 |-> t2, first |-> call.first,
                   second |-> compute_hearts_refill(t2, Some(call.first[2]),
                                                    call.first[1]),
                   single |-> compute_hearts_refill(t2, call.last, call.cur)]
    /\ UNCHANGED <<now, users, profiles, streak_log, attempts, exercises, ev, run, rg>>

NextRegenPair == RegenFirst \/ RegenSecond

SpecRegenPair == InitRegenPair /\ [][NextRegenPair]_vars

\* every database table empty and no request handled: the state around a
\* call of a pure function
NoRequests ==
    /\ now = 0
    /\ profiles = EmptyProfiles
    /\ users = {}
    /\ streak_log = EmptyBag
    /\ attempts = EmptyBag
    /\ exercises = OneExercise
    /\ ev = NoEvent
    /\ run = NoRun
    /\ rg = IdleRg

\* str literals
StrA == <<"a">>
StrBuenasNoches == <<"B", "u", "e", "n", "a", "s", " ", "n", "o", "c", "h", "e", "s">>
StrBuenosDias == <<"B", "u", "e", "n", "o", "s", " ", "d", "í", "a", "s">>
StrAdios == <<"A", "d", "i", "ó", "s">>
StrGracias == <<"G", "r", "a", "c", "i", "a", "s">>
StrGrasias == <<"G", "r", "a", "s", "i", "a", "s">>
StrHola == <<"H", "o", "l", "a">>

\* the mcq exercise of the seed catalog
SeedMcq ==
    [type |-> "mcq", answer_key |-> Some(StrBuenosDias),
     choices |-> Some(<<StrBuenasNoches, StrBuenosDias, StrAdios>>)]

\* the exercises graded: the seed mcq, choice exercises whose choices are
\* letters and digit strings, without choices and without answer_key, and
\* free-text exercises with and without answer_key
GradeExercises ==
    {SeedMcq,
     [type |-> "multiple_choice", answer_key |-> Some(<<"a">>),
      choices |-> Some(<<<<"b">>, <<"a">>>>)],
     [type |-> "mcq", answer_key |-> Some(<<"2">>),
      choices |-> Some(<<<<"4">>, <<"2">>, <<"0">>>>)],
     [type |-> "mcq", answer_key |-> Some(<<"a">>), choices |-> None],
     [type |-> "mcq", answer_key |-> None,
      choices |-> Some(<<<<"a">>, <<"b">>>>)],
     [type |-> "translate", answer_key |-> Some(StrGracias), choices |-> None],
     [type |-> "translate", answer_key |-> Some(<<"a", "b">>), choices |-> None],
     [type |-> "fill_blank", answer_key |-> None, choices |-> None]}

\* the characters of the enumerated answers
GradeAlphabet == {"a", "b", "B", "d", "0", "2", "4", "²", " "}

\* every str of length n over GradeAlphabet
StrsOfLen(n) == [1..n -> GradeAlphabet]

\* the answers graded: every short str, and the texts of the seed catalog
GradeAnswers ==
    UNION {StrsOfLen(n) : n \in 0..MaxAnswerLen}
        \cup {StrBuenosDias, StrBuenasNoches, StrGracias, StrGrasias, StrHola,
              <<" ">> \o Lower(StrGracias) \o <<" ">>,
              Lower(StrBuenosDias) \o <<"\t">>}

InitGrade ==
    /\ NoRequests
    /\ \E e \in GradeExercises, a \in GradeAnswers :
          call = [pc |-> "start", exercise |-> e, answer |-> a]

\* one call of grade_answer
Grade ==
    /\ call.pc = "start"
    /\ call' = [pc |-> "graded", exercise |-> call.exercise,
                answer |-> call.answer,
                out |-> grade_answer(call.exercise, call.answer)]
    /\ UNCHANGED <<now, users, profiles, streak_log, attempts, exercises, ev, run, rg>>

NextGrade == Grade

SpecGrade == InitGrade /\ [][NextGrade]_vars

\* the lessons of the selection harness: tagged in the lang column, tagged in
\* meta only, and tagged with another language as the seed lessons are
SelectLessons ==
    [l1 |-> [lang |-> Some("es"), meta_lang |-> None],
     l2 |-> [lang |-> None, meta_lang |-> Some("es")],
     l3 |-> [lang |-> Some("de"), meta_lang |-> Some("de")]]

\* the exercises a catalog of the selection harness is drawn from
ExercisePool ==
    <<[lesson_id |-> "l1", difficulty |-> 1],
      [lesson_id |-> "l1", difficulty |-> 2],
      [lesson_id |-> "l1", difficulty |-> 5],
      [lesson_id |-> "l2", difficulty |-> 2],
      [lesson_id |-> "l2", difficulty |-> 4],
      [lesson_id |-> "l3", difficulty |-> 3]>>

InitSelect ==
    /\ NoRequests
    /\ \E ids \in SUBSET (1..Len(ExercisePool)),
          lesson_id \in {None, Some("l1")},
          limit \in 0..MaxLimit,
          lang \in {None, Some("es"), Some("de"), Some("fr")},
          profile \in {None} \cup
              {Some([current_difficulty |-> d]) :
                  d \in MIN_DIFFICULTY..MAX_DIFFICULTY} :
          call = [pc |-> "select",
                  exercises |-> [e \in ids |-> ExercisePool[e]],
                  lesson_id |-> lesson_id, limit |-> limit,
                  learning_language |-> lang, profile |-> profile,
                  out |-> <<>>]

\* one call of select_session_exercises
Select ==
    /\ call.pc = "select"
    /\ \E result \in select_session_exercises(
                         call.exercises, SelectLessons, call.lesson_id,
                         call.limit, call.learning_language, call.profile) :
          call' = [call EXCEPT !.pc = "selected", !.out = result]
    /\ UNCHANGED <<now, users, profiles, streak_log, attempts, exercises, ev, run, rg>>

NextSelect == Select

SpecSelect == InitSelect /\ [][NextSelect]_vars

\* the instants at which the attempts of the review harness were inserted:
\* two instants of one day and one of the next day
ReviewInstants == {0, 1, TicksPerDay}

\* the dates on which the review is made
ReviewDays == {0, 1, 2, 3, 4, 5, 8, 9, 16, 17, 32, 33, 34}

\* the logs of n attempts in insertion order: created_at never decreases
LogsOfLen(n, instants) ==
    {l \in [1..n -> [is_correct : BOOLEAN, created_at : instants]] :
        \A i \in 1..(n - 1) : l[i].created_at <= l[i + 1].created_at}

\* the logs of a catalog of one exercise: every log of at most MaxHistory
\* attempts, the runs of correct answers up to the largest interval, and a
\* log longer than the attempts query returns
SingleLogs ==
    UNION {LogsOfLen(n, ReviewInstants) : n \in 0..MaxHistory}
        \cup {[i \in 1..k |-> [is_correct |-> TRUE, created_at |-> i]] :
                 k \in 1..6}
        \cup {[i \in 1..11 |-> [is_correct |-> i > 1, created_at |-> i]]}

\* the logs of a larger catalog: at most two attempts, made at one instant
ShortLogs == UNION {LogsOfLen(n, {0}) : n \in 0..2}

InitReview ==
    /\ NoRequests
    /\ \E n \in 0..MaxCatalog, today \in ReviewDays, limit \in 0..MaxLimit :
          \E log \in [1..n -> IF n = 1 THEN SingleLogs ELSE ShortLogs] :
              /\ \A e \in 1..n : \A i \in 1..Len(log[e]) :
                     Today(log[e][i].created_at) <= today
              /\ call = [pc |-> "review", all_exercises |-> [e \in 1..n |-> e],
                         log |-> log, today |-> today, limit |-> limit,
                         results |-> <<>>,
                         out |-> [due_list |-> <<>>, result |-> <<>>]]

\* one call of due_exercises
Review ==
    /\ call.pc = "review"
    /\ \E results \in [DOMAIN call.log ->
                          UNION {AttemptsQuery(call.log[e]) :
                                    e \in DOMAIN call.log}] :
          /\ \A e \in DOMAIN call.log : results[e] \in AttemptsQuery(call.log[e])
          /\ call' = [call EXCEPT
                         !.pc = "reviewed",
                         !.results = results,
                         !.out = due_exercises(call.all_exercises, results,
                                               call.today, call.limit)]
    /\ UNCHANGED <<now, users, profiles, streak_log, attempts, exercises,
                   ev, run, rg>>

NextReview == Review

SpecReview == InitReview /\ [][NextReview]_vars

----------------------------------------------------------------------------
(* Adaptive difficulty *)

\* the profile of the learner of the last request
Cur == profiles[ev.user]

\* the last request was a submission that committed
Submitted == ev.op = "submit" /\ ~ev.err

\* the last submission reached the promotion threshold
Promoted ==
    /\ Submitted
    /\ ev.is_correct
    /\ ev.pre.correct_streak = PROMOTION_STREAK - 1

\* C2: current_difficulty stays within [1,5]; a promotion at 5 leaves it at 5
\* and a demotion at 1 leaves it at 1, and neither request fails
C2_DifficultyInRange ==
    /\ \A u \in DOMAIN profiles :
          profiles[u].current_difficulty \in MIN_DIFFICULTY..MAX_DIFFICULTY
    /\ (ev.op = "submit" /\ ev.is_correct
          /\ ev.pre.correct_streak = PROMOTION_STREAK - 1
          /\ ev.pre.current_difficulty = MAX_DIFFICULTY)
       => (~ev.err /\ Cur.current_difficulty = MAX_DIFFICULTY)
    /\ (ev.op = "submit" /\ ~ev.is_correct
          /\ ev.pre.current_difficulty = MIN_DIFFICULTY)
       => (~ev.err /\ Cur.current_difficulty = MIN_DIFFICULTY)

C2_Witness ==
    /\ Promoted
    /\ ev.pre.current_difficulty = MAX_DIFFICULTY
    /\ Cur.current_difficulty = MAX_DIFFICULTY

\* C3: counted from correct_streak = 0 at difficulty d, the first and the second
\* consecutive correct submission leave the difficulty at d with correct_streak
\* 1 and 2, and the third leaves min(5, d + 1) with correct_streak 0
C3_ThreeCorrectPromote ==
    \A u \in DOMAIN profiles :
        /\ run.n = 1 => /\ profiles[u].current_difficulty = run.d0
                        /\ profiles[u].correct_streak = 1
        /\ run.n = 2 => /\ profiles[u].current_difficulty = run.d0
                        /\ profiles[u].correct_streak = 2
        /\ run.n = 3 => /\ profiles[u].current_difficulty =
                               Min(MAX_DIFFICULTY, run.d0 + 1)
                        /\ profiles[u].correct_streak = 0

C3_Witness ==
    /\ run.n = 3
    /\ run.d0 = MAX_DIFFICULTY - 1
    /\ Cur.current_difficulty = MAX_DIFFICULTY
    /\ Cur.correct_streak = 0

\* C4: an incorrect submission sets correct_streak to 0 and current_difficulty
\* to max(1, current_difficulty - 1); correct_streak is 0 after a promotion
C4_IncorrectResets ==
    /\ (Submitted /\ ~ev.is_correct)
       => /\ Cur.correct_streak = 0
          /\ Cur.current_difficulty =
                 Max(MIN_DIFFICULTY, ev.pre.current_difficulty - 1)
    /\ (Submitted /\ (Promoted \/ Cur.current_difficulty > ev.pre.current_difficulty))
       => Cur.correct_streak = 0

C4_Witness ==
    /\ Submitted
    /\ ~ev.is_correct
    /\ ev.pre.correct_streak = 2
    /\ ev.pre.current_difficulty = 3
    /\ Cur.current_difficulty = 2
    /\ Cur.correct_streak = 0

\* C28: between submissions the correct_streak of every profile is 0, 1 or 2
C28_CorrectStreakRange ==
    \A u \in DOMAIN profiles : profiles[u].correct_streak \in 0..(PROMOTION_STREAK - 1)

C28_Witness ==
    /\ Submitted
    /\ ev.is_correct
    /\ ev.pre.correct_streak = 1
    /\ Cur.correct_streak = 2
    /\ run.n >= 1

----------------------------------------------------------------------------
(* Hearts *)

\* C1: the heart count of every profile is an integer within 0..HEARTS_MAX
C1_HeartsInRange ==
    \A u \in DOMAIN profiles :
        /\ profiles[u].hearts \in Int
        /\ 0 <= profiles[u].hearts
        /\ profiles[u].hearts <= 5

C1_Witness ==
    /\ ev.op = "status"
    /\ ev.pre.hearts = 0
    /\ Cur.hearts = 5

\* C5: _compute_hearts_refill called again with the same now on the hearts and
\* the anchor it returned returns the same hearts and anchor
C5_RegenIdempotent == rg.pc = "twice" => rg.r2 = rg.r1

C5_Witness ==
    /\ rg.pc = "twice"
    /\ rg.cur < HEARTS_MAX
    /\ rg.r1[1] > rg.cur
    /\ rg.r1[1] < HEARTS_MAX
    /\ rg.r2 = rg.r1

\* whole minutes from the anchor of the harness to its now
RgElapsed == (rg.now - rg.last[1]) \div TicksPerMinute

\* C6: below HEARTS_MAX with an anchor e >= 0 whole minutes old, refills =
\* floor(e / 15); refills >= 1 gives min(5, hearts + refills) and the anchor
\* advanced by refills * 15 minutes, refills = 0 gives both unchanged; hearts 3
\* and 31 minutes give 5 hearts and the anchor advanced by 30 minutes
C6_RegenRefills ==
    (rg.pc \in {"once", "twice"} /\ rg.cur < 5 /\ rg.last # None /\ RgElapsed >= 0)
    => LET refills == RgElapsed \div 15
       IN  /\ refills >= 1
              => rg.r1 = <<Min(5, rg.cur + refills),
                           rg.last[1] + refills * 15 * TicksPerMinute>>
           /\ refills = 0 => rg.r1 = <<rg.cur, rg.last[1]>>
           /\ (rg.cur = 3 /\ RgElapsed = 31)
              => rg.r1 = <<5, rg.last[1] + 30 * TicksPerMinute>>

C6_Witness ==
    /\ rg.pc = "once"
    /\ rg.cur = 3
    /\ rg.last # None
    /\ RgElapsed = 31
    /\ rg.r1[1] = 5
    /\ rg.r1[2] < rg.now

\* C25: below HEARTS_MAX with an anchor, regen at t1 and then at t2 >= t1
\* gives the heart count of one regen at t2 and, when that count is below
\* HEARTS_MAX, the same anchor
C25_RegenComposes ==
    (call.pc = "second" /\ call.cur < HEARTS_MAX /\ call.last # None)
    => /\ call.second[1] = call.single[1]
       /\ call.single[1] < HEARTS_MAX => call.second[2] = call.single[2]

C25_Witness ==
    /\ call.pc = "second"
    /\ call.cur = 1
    /\ call.last = Some(1)
    /\ call.first = <<2, 1 + 15 * TicksPerMinute>>
    /\ call.t1 > 1 + 15 * TicksPerMinute
    /\ call.t2 > call.t1
    /\ call.second = <<3, 1 + 30 * TicksPerMinute>>
    /\ call.single = call.second

\* the last request was an incorrect answer that took hearts from HEARTS_MAX
\* to HEARTS_MAX - 1
LostAtMax ==
    /\ Submitted
    /\ ~ev.is_correct
    /\ ev.pre.hearts = HEARTS_MAX
    /\ Cur.hearts = HEARTS_MAX - 1

\* C29: a heart lost at HEARTS_MAX is not given back early: a status request
\* made less than 15 minutes after the incorrect answer leaves hearts at 4,
\* whatever hearts_last_refill_at was; here the request that follows the
\* answer with the clock less than 15 minutes on
C29_NoEarlyRefill ==
    [][(/\ LostAtMax
        /\ ev'.op = "status"
        /\ ev'.user = ev.user
        /\ now' - now < HEARTS_REGEN_INTERVAL_MINUTES * TicksPerMinute)
       => profiles'[ev.user].hearts = HEARTS_MAX - 1]_vars

\* C24: with no incorrect answer given, status requests repeated while the
\* clock advances bring the hearts of every learner to HEARTS_MAX, whether
\* hearts_last_refill_at is a past timestamp or absent
C24_HeartsRegenerate ==
    \A u \in Users : <>(u \in DOMAIN profiles /\ profiles[u].hearts = HEARTS_MAX)

----------------------------------------------------------------------------
(* XP and hearts of one answer *)

\* what apply_answer_outcome did in the last submission
C7_Outcome ==
    Submitted
    => /\ ev.is_correct
          => /\ ev.awarded = 10
             /\ Cur.xp = ev.pre.xp + 10
             /\ Cur.hearts = ev.pre.hearts
       /\ ~ev.is_correct
          => /\ ev.awarded = 0
             /\ Cur.xp = ev.pre.xp
             /\ Cur.hearts = Max(0, ev.pre.hearts - 1)

\* no step lowers the xp of a profile
XpNotLowered ==
    \A u \in DOMAIN profiles :
        u \in DOMAIN profiles' /\ profiles'[u].xp >= profiles[u].xp

\* C7: a correct answer returns 10, adds 10 to xp and leaves hearts; an
\* incorrect one returns 0, leaves xp and sets hearts to max(0, hearts - 1);
\* xp never decreases
C7_AnswerOutcome == []C7_Outcome /\ [][XpNotLowered]_vars

C7_Witness ==
    /\ Submitted
    /\ ~ev.is_correct
    /\ ev.pre.xp = 10
    /\ ev.pre.hearts = 0
    /\ Cur.xp = 10
    /\ Cur.hearts = 0

----------------------------------------------------------------------------
(* Streak *)

\* the calendar date of the last request
EvToday == Today(now)

\* C8: with last_active the day before today the streak update adds exactly 1
\* to streak_count and sets last_active to today; with last_active today it
\* leaves streak_count, last_active and the streak-day markers as they are
C8_StreakStep ==
    [][(ev'.op = "submit" /\ ~ev'.err)
       => LET pre == ev'.pre
              post == profiles'[ev'.user]
          IN  /\ pre.last_active = Some(Today(now) - 1)
                 => /\ post.streak_count = pre.streak_count + 1
                    /\ post.last_active = Some(Today(now))
              /\ pre.last_active = Some(Today(now))
                 => /\ post.streak_count = pre.streak_count
                    /\ post.last_active = pre.last_active
                    /\ streak_log' = streak_log]_vars

C8_Witness ==
    /\ Submitted
    /\ ev.pre.last_active = Some(EvToday)
    /\ ev.pre.streak_count = 2
    /\ Cur.streak_count = 2
    /\ BagIn(<<ev.user, EvToday - 1>>, streak_log)

\* C9: the streak update of a submission, correct or incorrect, sets
\* streak_count to 1 when last_active is absent or more than one day before
\* today, and leaves last_active = today whenever it differed from today
C9_StreakReset ==
    Submitted
    => /\ ev.pre.last_active = None => Cur.streak_count = 1
       /\ (ev.pre.last_active # None /\ EvToday - ev.pre.last_active[1] > 1)
          => Cur.streak_count = 1
       /\ ev.pre.last_active # Some(EvToday) => Cur.last_active = Some(EvToday)

C9_Witness ==
    /\ Submitted
    /\ ~ev.is_correct
    /\ ev.pre.last_active # None
    /\ EvToday - ev.pre.last_active[1] > 1
    /\ ev.pre.streak_count = 2
    /\ Cur.streak_count = 1
    /\ Cur.last_active = Some(EvToday)

\* C10: the streak log holds at most one marker for each (learner, date), and
\* no submission fails on a marker that already exists
C10_OneMarkerPerDay ==
    /\ \A m \in BagToSet(streak_log) : CopiesIn(m, streak_log) = 1
    /\ ~ev.err

C10_Witness ==
    /\ Submitted
    /\ ev.marker_existed
    /\ ev.pre.last_active # Some(EvToday)
    /\ Cur.last_active = Some(EvToday)
    /\ CopiesIn(<<ev.user, EvToday>>, streak_log) = 1

\* the number of consecutive calendar dates ending at d that each have a
\* marker for the learner
RECURSIVE MarkedRun(_, _)
MarkedRun(u, d) ==
    IF d < 0 \/ ~BagIn(<<u, d>>, streak_log) THEN 0
    ELSE 1 + MarkedRun(u, d - 1)

\* C23: with a calendar clock that never goes backwards, wherever last_active
\* is present streak_count >= 1, a marker exists for (learner, last_active)
\* and streak_count is the number of consecutive dates ending at last_active
\* that each have a marker for the learner
C23_StreakIsMarkedRun ==
    \A u \in DOMAIN profiles :
        profiles[u].last_active # None
        => LET d == profiles[u].last_active[1]
           IN  /\ profiles[u].streak_count >= 1
               /\ BagIn(<<u, d>>, streak_log)
               /\ profiles[u].streak_count = MarkedRun(u, d)

C23_Witness ==
    /\ Submitted
    /\ Cur.last_active = Some(3)
    /\ Cur.streak_count = 2
    /\ BagIn(<<ev.user, 0>>, streak_log)
    /\ ~BagIn(<<ev.user, 1>>, streak_log)
    /\ MarkedRun(ev.user, 3) = 2

----------------------------------------------------------------------------
(* Profile lifecycle *)

\* what ensure_user_and_profile did in the request of this step
EnsureStep ==
    ev'.op \in {"submit", "status"}
    => LET u == ev'.user
       IN  /\ ev'.inserted <=> u \notin DOMAIN profiles
           /\ u \notin DOMAIN profiles
              => /\ ev'.pre.xp = 0
                 /\ ev'.pre.hearts = 5
                 /\ ev'.pre.streak_count = 0
                 /\ ev'.pre.native_language = "en"
           /\ u \in DOMAIN profiles => ev'.pre = profiles[u]
           /\ ~ev'.err => u \in DOMAIN profiles'

\* C11: a profile row is inserted only for a learner who has none, with xp 0,
\* HEARTS_MAX hearts, streak_count 0 and native_language "en"; for a learner
\* who has one the call returns that row with every field as it was
C11_OneProfile == [][EnsureStep]_vars

C11_Witness ==
    /\ ev.op = "status"
    /\ ~ev.inserted
    /\ ev.pre.xp = 10
    /\ ev.pre.hearts = 4
    /\ Cur.xp = 10

----------------------------------------------------------------------------
(* Grading *)

\* grade_answer was called
Graded == call.pc = "graded"

\* the answer_key and the choices of the graded exercise, absent as empty
CallKey ==
    IF call.exercise.answer_key = None THEN <<>> ELSE call.exercise.answer_key[1]
CallChoices ==
    IF call.exercise.choices = None THEN <<>> ELSE call.exercise.choices[1]

\* trimmed and lower-cased
Norm(s) == Lower(Strip(s))

\* C12 as stated: "a" against the seed mcq is graded correct
C12_LetterACorrect ==
    (Graded /\ call.exercise = SeedMcq /\ call.answer = StrA)
    => (~call.out.raised /\ call.out.is_correct)

\* C12: "a" against the seed mcq selects choices[0] = "Buenas noches" and is
\* graded incorrect with "Incorrect."; "b" selects "Buenos días" and is
\* graded correct
C12_LetterAIncorrect ==
    (Graded /\ call.exercise = SeedMcq)
    => /\ call.answer = StrA
          => /\ ~call.out.raised
             /\ ~call.out.is_correct
             /\ call.out.feedback = <<"Incorrect.">>
       /\ call.answer = <<"b">>
          => /\ ~call.out.raised
             /\ call.out.is_correct
             /\ call.out.feedback = <<"Correct!">>

C12_Witness ==
    /\ Graded
    /\ call.exercise = SeedMcq
    /\ call.answer = StrA
    /\ ~call.out.is_correct

\* a str of decimal digits only
AllDecimal(s) ==
    s # <<>> /\ \A i \in 1..Len(s) : IndexOf(DecimalDigits, s[i]) > 0

\* the selection C13 describes for the trimmed answer raw
ClaimedSelection(raw, choices) ==
    LET i == IndexOf(AsciiLower, LowerChar(raw[1])) - 1
        k == IntValue(raw)
    IN  IF Len(raw) = 1 /\ i >= 0 /\ i < Len(choices) THEN choices[i + 1]
        ELSE IF AllDecimal(raw) /\ 1 <= k /\ k <= Len(choices) THEN choices[k]
        ELSE raw

\* C13: in a choice-type exercise with choices the selection is the choice of
\* the letter, else the choice of the 1-based number, else the trimmed answer;
\* the verdict is the normalized equality of selection and answer_key, the
\* feedback "Correct!" or "Incorrect."
C13_ChoiceSelection ==
    (Graded /\ call.exercise.type \in ChoiceTypes /\ CallChoices # <<>>)
    => LET sel == ClaimedSelection(Strip(call.answer), CallChoices)
       IN  /\ ~call.out.raised
           /\ call.out.is_correct <=> Norm(sel) = Norm(CallKey)
           /\ call.out.feedback =
                  IF call.out.is_correct THEN <<"Correct!">> ELSE <<"Incorrect.">>

\* C14: grade_answer returns a verdict and a feedback for every exercise and
\* every answer, and never raises
C14_GradeTotal == Graded => ~call.out.raised

\* the total size of the matching blocks of two strs
Blocks(a, b) == Matches(a, b, 1, Len(a), 1, Len(b))

\* C15: a free-text answer is correct, with "Correct!", exactly when it equals
\* answer_key after trimming and lower-casing; otherwise the feedback is
\* "Close! Watch spelling or accents." when the similarity ratio 2M/T exceeds
\* 0.85 and "Expected: <answerKey>" when not; "Grasias" for "Gracias" is Close
C15_FreeText ==
    (Graded /\ call.exercise.type \notin ChoiceTypes)
    => LET u == Norm(call.answer)
           k == Norm(CallKey)
       IN  /\ ~call.out.raised
           /\ call.out.is_correct <=> u = k
           /\ u = k => call.out.feedback = <<"Correct!">>
           /\ (u # k /\ 200 * Blocks(u, k) > 85 * (Len(u) + Len(k)))
              => call.out.feedback = <<"Close! Watch spelling or accents.">>
           /\ (u # k /\ 200 * Blocks(u, k) <= 85 * (Len(u) + Len(k)))
              => call.out.feedback = <<"Expected: ">> \o CallKey
           /\ (call.answer = StrGrasias /\ CallKey = StrGracias)
              => /\ ~call.out.is_correct
                 /\ call.out.feedback = <<"Close! Watch spelling or accents.">>

C15_Witness ==
    /\ Graded
    /\ call.exercise.type = "translate"
    /\ call.answer = StrGrasias
    /\ CallKey = StrGracias
    /\ ~call.out.is_correct
    /\ call.out.feedback = <<"Close! Watch spelling or accents.">>

\* C30: in a choice-type exercise whose answer_key is one of its choices, an
\* answer that is the answer_key text up to surrounding whitespace and letter
\* case is graded correct, single-letter and digit choices included
C30_KeyTextCorrect ==
    (/\ Graded
     /\ call.exercise.type \in ChoiceTypes
     /\ \E i \in 1..Len(CallChoices) : CallChoices[i] = CallKey
     /\ Norm(call.answer) = Norm(CallKey))
    => (~call.out.raised /\ call.out.is_correct)

----------------------------------------------------------------------------
(* Session selection *)

\* the exercises of the call whose lesson is tagged with the language
Tagged(lang) ==
    {e \in DOMAIN call.exercises :
        LET l == SelectLessons[call.exercises[e].lesson_id]
        IN  l.lang = Some(lang) \/ l.meta_lang = Some(lang)}

\* the distance of an exercise of the call from the clamped difficulty
Distance(e) ==
    LET d == call.profile[1].current_difficulty
        target == IF d < 1 THEN 1 ELSE IF d > 5 THEN 5 ELSE d
    IN  Abs(call.exercises[e].difficulty - target)

\* select_session_exercises was called with a language and a profile and
\* without a lesson
SelectedByLevel ==
    /\ call.pc = "selected"
    /\ call.lesson_id = None
    /\ call.learning_language # None
    /\ call.profile # None

\* C16: with a language and a profile and no lesson the result is
\* min(limit, candidates) distinct exercises of lessons tagged with the
\* language, in non-decreasing distance from the clamped difficulty, none
\* farther than a candidate left out, and empty when there is no candidate
C16_SelectByLevel ==
    SelectedByLevel
    => LET cands == Tagged(call.learning_language[1])
           out == call.out
           n == Len(out)
       IN  /\ n = Min(call.limit, Cardinality(cands))
           /\ \A i, j \in 1..n : i # j => out[i] # out[j]
           /\ \A i \in 1..n : out[i] \in cands
           /\ \A i, j \in 1..n : i < j => Distance(out[i]) <= Distance(out[j])
           /\ \A i \in 1..n :
                 \A e \in cands \ {out[j] : j \in 1..n} :
                     Distance(out[i]) <= Distance(e)
           /\ cands = {} => out = <<>>

C16_Witness ==
    /\ SelectedByLevel
    /\ Len(call.out) = 2
    /\ Cardinality(Tagged(call.learning_language[1])) > 2
    /\ call.exercises[call.out[1]].lesson_id = "l2"
    /\ Distance(call.out[1]) < Distance(call.out[2])
    /\ call.exercises[call.out[2]].difficulty
           < call.exercises[call.out[1]].difficulty

----------------------------------------------------------------------------
(* Spaced repetition *)

\* due_exercises was called
Reviewed == call.pc = "reviewed"

\* the number of consecutive correct attempts of a log counted from its newest
\* attempt backwards over its ten newest attempts
NewestStreak(log) ==
    LET n == Len(log)
        m == IF n < 10 THEN n ELSE 10
    IN  CHOOSE k \in 0..m :
            /\ \A i \in 1..k : log[n + 1 - i].is_correct
            /\ k = m \/ ~log[n - k].is_correct

\* 2 ** k capped at 32
CappedInterval(k) ==
    IF k = 0 THEN 1 ELSE IF k = 1 THEN 2 ELSE IF k = 2 THEN 4
    ELSE IF k = 3 THEN 8 ELSE IF k = 4 THEN 16 ELSE 32

\* exercise e of the call is due as C17 states it
DueAsStated(e) ==
    LET log == call.log[e]
    IN  \/ log = <<>>
        \/ /\ log # <<>>
           /\ Today(log[Len(log)].created_at) + CappedInterval(NewestStreak(log))
                  <= call.today

\* the entries of a list
Entries(list) == {list[i] : i \in 1..Len(list)}

\* no two attempts of an exercise of the call have the same created_at
NoTies ==
    \A e \in DOMAIN call.log :
        \A i, j \in 1..Len(call.log[e]) :
            i # j => call.log[e][i].created_at # call.log[e][j].created_at

\* C17: an exercise with attempts is treated as due exactly when the date of
\* its newest attempt plus min(32, 2^streak) days is at most today, streak
\* being the consecutive correct attempts from the newest backwards over the
\* ten newest; an exercise without attempts is due
C17_DueRule ==
    (Reviewed /\ call.limit > Len(call.all_exercises))
    => \A e \in DOMAIN call.log :
           e \in Entries(call.out.due_list) <=> DueAsStated(e)

\* exercise e of the call is not due as C17 states it
NotDueAsStated(e) == ~DueAsStated(e)

\* C18: the result has no duplicates and length min(limit, N); the due
\* exercises come first in catalog order and the non-due exercises follow in
\* catalog order
C18_DueFirst ==
    Reviewed
    => LET all == call.all_exercises
           ordered == SelectSeq(all, DueAsStated) \o SelectSeq(all, NotDueAsStated)
           k == IF call.limit < Len(all) THEN call.limit ELSE Len(all)
           out == call.out.result
       IN  /\ Len(out) = k
           /\ \A i, j \in 1..Len(out) : i # j => out[i] # out[j]
           /\ out = SubSeq(ordered, 1, k)

\* C19: for a learner without attempts the result is the first min(limit, N)
\* exercises of the catalog, each of them classified as due
C19_NoAttempts ==
    (Reviewed /\ \A e \in DOMAIN call.log : call.log[e] = <<>>)
    => LET all == call.all_exercises
           k == IF call.limit < Len(all) THEN call.limit ELSE Len(all)
           out == call.out.result
       IN  /\ out = SubSeq(all, 1, k)
           /\ \A i \in 1..Len(out) : out[i] \in Entries(call.out.due_list)

C19_Witness ==
    /\ Reviewed
    /\ Len(call.all_exercises) = 2
    /\ \A e \in DOMAIN call.log : call.log[e] = <<>>
    /\ call.limit = 1
    /\ call.out.result = <<1>>
    /\ 1 \in Entries(call.out.due_list)

----------------------------------------------------------------------------
(* Attempt log *)

\* the row C20 states for the submission recorded in ev of the next state
StatedAttempt ==
    [user_id |-> ev'.user, exercise_id |-> ev'.exercise,
     is_correct |-> ev'.is_correct,
     awarded_xp |-> profiles'[ev'.user].xp - ev'.pre.xp,
     level |-> exercises[ev'.exercise].difficulty]

AppendOnlyStep ==
    /\ attempts \sqsubseteq attempts'
    /\ (ev'.op = "submit" /\ ~ev'.err)
       => attempts' = attempts (+) SetToBag({StatedAttempt})
    /\ (ev'.op # "submit" \/ ev'.err) => attempts' = attempts

\* C20: every successful submission adds exactly one attempt holding the
\* verdict, the XP awarded and the difficulty of the exercise; no submit,
\* status, session start, due review or failed request changes or removes an
\* attempt
C20_AppendOnly == [][AppendOnlyStep]_vars

C20_Witness ==
    /\ ev.op = "due"
    /\ BagCardinality(attempts) = 3
    /\ BagIn([user_id |-> "u1", exercise_id |-> "e2", is_correct |-> TRUE,
              awarded_xp |-> 10, level |-> 2], attempts)
    /\ BagIn([user_id |-> "u1", exercise_id |-> "e1", is_correct |-> FALSE,
              awarded_xp |-> 0, level |-> 1], attempts)
    /\ profiles["u1"].learning_language = Some("es")

\* the tables are as they were and the learner's profile, if there is one,
\* has every field as it was
NotFoundStep ==
    (ev'.op = "submit" /\ ev'.exercise \notin DOMAIN exercises)
    => /\ ev'.err /\ ev'.not_found
       /\ attempts' = attempts
       /\ streak_log' = streak_log
       /\ users' = users
       /\ profiles' = profiles
       /\ exercises' = exercises

\* C21: a submission naming an exercise that does not exist fails with not
\* found and leaves the persisted state as it was: no attempt is recorded and
\* the learner's xp, hearts, streak_count, last_active, current_difficulty
\* and correct_streak are what they were
C21_NotFoundUnchanged == [][NotFoundStep]_vars

C21_Witness ==
    /\ ev.op = "submit"
    /\ ev.not_found
    /\ ev.exercise = "e0"
    /\ ev.user \in DOMAIN profiles
    /\ Cur.xp = 10
    /\ Cur.hearts = 4
    /\ BagCardinality(attempts) = 2

\* the rows of a learner in tables profiles, attempts and streak_log
OwnProfiles(ps, u) == [x \in DOMAIN ps \cap {u} |-> ps[x]]
OwnAttempts(tbl, u) ==
    [a \in {x \in BagToSet(tbl) : x.user_id = u} |-> CopiesIn(a, tbl)]
OwnMarkers(log, u) ==
    [m \in {x \in BagToSet(log) : x[1] = u} |-> CopiesIn(m, log)]

\* a step leaves the rows of every learner but the one of the request, and
\* the catalog, as they were
OthersUnchanged ==
    /\ exercises' = exercises
    /\ \A v \in Learners \ {ev'.user} :
          /\ OwnProfiles(profiles', v) = OwnProfiles(profiles, v)
          /\ OwnAttempts(attempts', v) = OwnAttempts(attempts, v)
          /\ OwnMarkers(streak_log', v) = OwnMarkers(streak_log, v)

\* a request leaves the learner's rows as the handler leaves them on a
\* database that holds the rows of this learner alone
OwnRowsDecide ==
    LET u  == ev'.user
        ps == ensure_user_and_profile(OwnProfiles(profiles, u), u, now)
        o  == apply_answer_outcome(AdjustDifficulty(ps[u], ev'.is_correct),
                                   OwnMarkers(streak_log, u), u,
                                   ev'.is_correct, Today(now))
    IN  /\ (ev'.op = "submit" /\ ~ev'.not_found)
           => /\ ev'.err = o.err
              /\ ~o.err
                 => /\ profiles'[u] = o.profile
                    /\ OwnMarkers(streak_log', u) = o.log
                    /\ OwnAttempts(attempts', u)
                           = OwnAttempts(attempts, u) (+) SetToBag(
                                {Attempt(u, ev'.exercise, ev'.is_correct, o.awarded,
                                         exercises[ev'.exercise].difficulty)})
        /\ ev'.op = "status"
           => /\ profiles'[u] = maybe_regen_hearts(ps[u], now)
              /\ OwnMarkers(streak_log', u) = OwnMarkers(streak_log, u)
              /\ OwnAttempts(attempts', u) = OwnAttempts(attempts, u)
        /\ ev'.op = "start"
           => /\ u \in DOMAIN profiles'
              /\ OwnMarkers(streak_log', u) = OwnMarkers(streak_log, u)
              /\ OwnAttempts(attempts', u) = OwnAttempts(attempts, u)
        /\ ev'.op \in {"due", "tick"} \/ ev'.not_found
           => /\ OwnProfiles(profiles', u) = OwnProfiles(profiles, u)
              /\ OwnMarkers(streak_log', u) = OwnMarkers(streak_log, u)
              /\ OwnAttempts(attempts', u) = OwnAttempts(attempts, u)

\* C22: a request of one learner changes no other learner's profile, attempts
\* or streak-day markers, no request changes the exercise catalog, and in any
\* interleaving each learner's rows are what the learner's own requests make
\* them
C22_LearnersIsolated == [][OthersUnchanged /\ OwnRowsDecide]_vars

C22_Witness ==
    /\ Submitted
    /\ ev.user = "u2"
    /\ ev.marker_existed = FALSE
    /\ BagIn(<<"u1", EvToday>>, streak_log)
    /\ BagIn(<<"u2", EvToday>>, streak_log)
    /\ "u1" \in DOMAIN profiles
    /\ profiles["u1"].xp = 10
    /\ profiles["u1"].hearts = 5
    /\ profiles["u2"].xp = 0
    /\ profiles["u2"].hearts = 4
    /\ BagCardinality(attempts) = 2

\* the requests that ran the marker-exists check and have not committed
PastMarkerCheck ==
    {r \in DOMAIN call.pending : call.pending[r].pc = "flushed"}

\* the write lock of the database lets one session at a time past the UPDATE
\* that precedes the marker-exists check, so no two submissions are past the
\* check together, the streak log holds a (learner, date) once and a commit
\* never fails on uq_streak_day
MarkerCheckSerialized ==
    /\ Cardinality(PastMarkerCheck) <= 1
    /\ \A m \in BagToSet(streak_log) : CopiesIn(m, streak_log) = 1
    /\ (ev.op = "submit" /\ ev.err) => (ev.inserted /\ ev.awarded = 0)

\* the attempts of a learner
AttemptsOf(u) == {a \in BagToSet(attempts) : a.user_id = u}

\* the sum of awarded_xp over the rows of a set, each counted as often as the
\* table holds it
RECURSIVE SumAwarded(_)
SumAwarded(rows) ==
    IF rows = {} THEN 0
    ELSE LET a == CHOOSE x \in rows : TRUE
         IN  a.awarded_xp * CopiesIn(a, attempts) + SumAwarded(rows \ {a})

\* the number of attempts of a set of rows recorded as correct
RECURSIVE CountCorrect(_)
CountCorrect(rows) ==
    IF rows = {} THEN 0
    ELSE LET a == CHOOSE x \in rows : TRUE
         IN  (IF a.is_correct THEN CopiesIn(a, attempts) ELSE 0)
             + CountCorrect(rows \ {a})

\* C27: with a learner's submissions serialized, from a fresh profile the xp
\* of the learner is the sum of awarded_xp over the learner's attempts, which
\* is 10 times the number of the attempts recorded as correct
C27_XpLedger ==
    \A u \in DOMAIN profiles :
        /\ profiles[u].xp = SumAwarded(AttemptsOf(u))
        /\ SumAwarded(AttemptsOf(u)) = 10 * CountCorrect(AttemptsOf(u))

C27_Witness ==
    /\ Submitted
    /\ Cur.xp = 20
    /\ CountCorrect(AttemptsOf(ev.user)) = 2
    /\ BagCardinality(attempts) = 4

====
